---------------------------- MODULE Spec2Model ----------------------------
(***************************************************************************)
(* fullwidth.py: translation of ASCII text into styled Unicode letters.    *)
(*                                                                         *)
(* A Python str is modelled as the sequence of its code points, a dict     *)
(* from code point to code point as a function.  The string literals of    *)
(* fullwidth.py are UTF-8 text; the code points listed here are those of   *)
(* the literals' characters.                                               *)
(***************************************************************************)
EXTENDS Integers, Sequences, FiniteSets, TLC

VARIABLES
  pc,          \* position of the running program
  argv,        \* the command line (sys.argv[1:]), a sequence of strings
  args,        \* the namespace parse_args returned: translator, words
  translator,  \* the class of the translation object, "None" before it exists
  table,       \* self.table of the translation object
  string,      \* the argument of the latest translate call
  translation, \* what the latest translate call returned
  exc,         \* the exception the latest operation raised, "none" if it returned
  firstOut,    \* per observed input, what the first translate call with it returned
  xclip,       \* how the xclip subprocess went
  clipboard,   \* the bytes xclip received and kept
  stdout,      \* the lines printed
  src,         \* create_table's first argument
  dst,         \* create_table's second argument
  ret          \* create_table's return value

vars ==
  <<pc, argv, args, translator, table, string, translation, exc, firstOut,
    xclip, clipboard, stdout, src, dst, ret>>

-----------------------------------------------------------------------------
(* Bounds of the model. *)

MaxLen == 2

MaxTableLen == 3

MaxArgs == 3

\* The characters translate is called with: A a q 1 space ~ and sharp s.
Alphabet == {65, 97, 113, 49, 32, 126, 223}

\* The characters create_table is called with.
SrcChars == {65, 66, 67}

DstChars == {97, 98, 99}

SeqsUpTo(S, n) == UNION {[1..k -> S] : k \in 0..n}

Strings == SeqsUpTo(Alphabet, MaxLen)

\* The inputs whose first output is remembered: "a" and "ß".
Probes == {<<97>>, <<223>>}

\* No str: the value of a variable that holds no string yet.
NoString == <<-1>>

EmptyDict == [c \in {} |-> 0]

Styles ==
  {"FullWidthTranslation", "SuperscriptTranslation", "SubscriptTranslation",
   "BlackletterTranslation", "BoldBlackletterTranslation",
   "MathScriptTranslation", "BoldMathScriptTranslation"}

-----------------------------------------------------------------------------
(* The literals of the six create_table calls. *)

SuperscriptSrc ==
  <<
    65, 66, 68, 69, 71, 72, 73, 74, 75, 76, 77, 78, 79, 80, 82, 84, 85, 86,
    87, 97, 98, 99, 100, 101, 102, 103, 104, 105, 106, 107, 108, 109, 110,
    111, 112, 114, 115, 116, 117, 118, 119, 120, 121, 122, 48, 49, 50, 51,
    52, 53, 54, 55, 56, 57, 43, 45, 61, 40, 41
  >>

SuperscriptDst ==
  <<
    7468, 7470, 7472, 7473, 7475, 7476, 7477, 7478, 7479, 7480, 7481, 7482,
    7484, 7486, 7487, 7488, 7489, 11389, 7490, 7491, 7495, 7580, 7496, 7497,
    7584, 7501, 688, 8305, 690, 7503, 737, 7504, 8319, 7506, 7510, 691, 738,
    7511, 7512, 7515, 695, 739, 696, 7611, 8304, 185, 178, 179, 8308, 8309,
    8310, 8311, 8312, 8313, 8314, 8315, 8316, 8317, 8318
  >>

SubscriptSrc ==
  <<
    65, 69, 72, 73, 74, 75, 76, 77, 78, 79, 80, 82, 83, 84, 85, 86, 88, 48,
    49, 50, 51, 52, 53, 54, 55, 56, 57, 43, 45, 61, 40, 41
  >>

SubscriptDst ==
  <<
    8336, 8337, 8341, 7522, 11388, 8342, 8343, 8344, 8345, 8338, 8346, 7523,
    8347, 8348, 7524, 7525, 8339, 8320, 8321, 8322, 8323, 8324, 8325, 8326,
    8327, 8328, 8329, 8330, 8331, 8332, 8333, 8334
  >>

BlackletterSrc ==
  <<
    65, 66, 67, 68, 69, 70, 71, 72, 73, 74, 75, 76, 77, 78, 79, 80, 81, 82,
    83, 84, 85, 86, 87, 88, 89, 90, 97, 98, 99, 100, 101, 102, 103, 104, 105,
    106, 107, 108, 109, 110, 111, 112, 113, 114, 115, 116, 117, 118, 119,
    120, 121, 122
  >>

BlackletterDst ==
  <<
    120068, 120069, 8493, 120071, 120072, 120073, 120074, 8460, 8465, 120077,
    120078, 120079, 120080, 120081, 120082, 120083, 120084, 8476, 120086,
    120087, 120088, 120089, 120090, 120091, 120092, 8488, 120094, 120095,
    120096, 120097, 120098, 120099, 120100, 120101, 120102, 120103, 120104,
    120105, 120106, 120107, 120108, 120109, 120110, 120111, 120112, 120113,
    120114, 120115, 120116, 120117, 120118, 120119
  >>

BoldBlackletterSrc ==
  <<
    65, 66, 67, 68, 69, 70, 71, 72, 73, 74, 75, 76, 77, 78, 79, 80, 81, 82,
    83, 84, 85, 86, 87, 88, 89, 90, 97, 98, 99, 100, 101, 102, 103, 104, 105,
    106, 107, 108, 109, 110, 111, 112, 113, 114, 115, 116, 117, 118, 119,
    120, 121, 122
  >>

BoldBlackletterDst ==
  <<
    120172, 120173, 120174, 120175, 120176, 120177, 120178, 120179, 120180,
    120181, 120182, 120183, 120184, 120185, 120186, 120187, 120188, 120189,
    120190, 120191, 120192, 120193, 120194, 120195, 120196, 120197, 120198,
    120199, 120200, 120201, 120202, 120203, 120204, 120205, 120206, 120207,
    120208, 120209, 120210, 120211, 120212, 120213, 120214, 120215, 120216,
    120217, 120218, 120219, 120220, 120221, 120222, 120223
  >>

MathScriptSrc ==
  <<
    65, 66, 67, 68, 69, 70, 71, 72, 73, 74, 75, 76, 77, 78, 79, 80, 81, 82,
    83, 84, 85, 86, 87, 88, 89, 90, 97, 98, 99, 100, 101, 102, 103, 104, 105,
    106, 107, 108, 109, 110, 111, 112, 113, 114, 115, 116, 117, 118, 119,
    120, 121, 122
  >>

MathScriptDst ==
  <<
    119964, 8492, 119966, 119967, 8496, 8497, 119970, 8459, 8464, 119973,
    119974, 8466, 8499, 119977, 119978, 119979, 119980, 8475, 119982, 119983,
    119984, 119985, 119986, 119987, 119988, 119989, 119990, 119991, 119992,
    119993, 8495, 119995, 8458, 119997, 119998, 119999, 120000, 120001,
    120002, 120003, 8500, 120005, 120006, 120007, 120008, 120009, 120010,
    120011, 120012, 120013, 120014, 120015
  >>

BoldMathScriptSrc ==
  <<
    65, 66, 67, 68, 69, 70, 71, 72, 73, 74, 75, 76, 77, 78, 79, 80, 81, 82,
    83, 84, 85, 86, 87, 88, 89, 90, 97, 98, 99, 100, 101, 102, 103, 104, 105,
    106, 107, 108, 109, 110, 111, 112, 113, 114, 115, 116, 117, 118, 119,
    120, 121, 122
  >>

BoldMathScriptDst ==
  <<
    120016, 120017, 120018, 120019, 120020, 120021, 120022, 120023, 120024,
    120025, 120026, 120027, 120028, 120029, 120030, 120031, 120032, 120033,
    120034, 120035, 120036, 120037, 120038, 120039, 120040, 120041, 120042,
    120043, 120044, 120045, 120046, 120047, 120048, 120049, 120050, 120051,
    120052, 120053, 120054, 120055, 120056, 120057, 120058, 120059, 120060,
    120061, 120062, 120063, 120064, 120065, 120066, 120067
  >>

-----------------------------------------------------------------------------
(* Python built-ins. *)

Min(a, b) == IF a < b THEN a ELSE b

\* range(a, b): a, a+1, ..., b-1.
range(a, b) == [i \in 1..(IF b > a THEN b - a ELSE 0) |-> a + i - 1]

\* {k: v for k, v in zip(keys, values)}: zip stops at the shorter sequence, and
\* a key that occurs again replaces its earlier value.
ZipDict_firstwins(keys, values) ==
  LET n == Min(Len(keys), Len(values))
  IN  [c \in {keys[i] : i \in 1..n} |->
         values[CHOOSE i \in 1..n :
                  keys[i] = c /\ \A j \in 1..n : keys[j] = c => i <= j]]

ZipDict(keys, values) ==
  LET n == Min(Len(keys), Len(values))
  IN  [c \in {keys[i] : i \in 1..n} |->
         values[CHOOSE i \in 1..n :
                  keys[i] = c /\ \A j \in 1..n : keys[j] = c => j <= i]]

\* d.update({k: v})
DictUpdate(d, k, v) ==
  [c \in DOMAIN d \cup {k} |-> IF c = k THEN v ELSE d[c]]

\* str.upper() of one character, for the code points below 256.
UpperChar(c) ==
  IF c \in 97..122 THEN <<c - 32>>
  ELSE IF c = 181 THEN <<924>>
  ELSE IF c = 223 THEN <<83, 83>>
  ELSE IF c \in 224..254 /\ c # 247 THEN <<c - 32>>
  ELSE IF c = 255 THEN <<376>>
  ELSE <<c>>

RECURSIVE upper(_)
upper(s) == IF s = <<>> THEN <<>> ELSE UpperChar(Head(s)) \o upper(Tail(s))

\* str.translate(table): a character whose code point is a key is replaced by
\* chr of the value, which must be in range(0x110000); any other is kept.
StrTranslate_strict(tbl, s) ==
  IF \E i \in 1..Len(s) : s[i] \notin DOMAIN tbl
  THEN [exc |-> "KeyError", value |-> NoString]
  ELSE [exc |-> "none", value |-> [i \in 1..Len(s) |-> tbl[s[i]]]]

StrTranslate_dropping(tbl, s) ==
  LET mapped == SelectSeq(s, LAMBDA c : c \in DOMAIN tbl)
  IN  [exc |-> "none", value |-> [i \in 1..Len(mapped) |-> tbl[mapped[i]]]]

StrTranslate(tbl, s) ==
  IF \E i \in 1..Len(s) : s[i] \in DOMAIN tbl /\ tbl[s[i]] \notin 0..1114111
  THEN [exc |-> "ValueError", value |-> NoString]
  ELSE [exc |-> "none",
        value |-> [i \in 1..Len(s) |->
                     IF s[i] \in DOMAIN tbl THEN tbl[s[i]] ELSE s[i]]]

-----------------------------------------------------------------------------
(* create_table and the translation classes. *)

create_table_noassert(source, destination) ==
  [exc |-> "none", table |-> ZipDict(source, destination)]

create_table(source, destination) ==
  IF Len(source) = Len(destination)
  THEN [exc |-> "none", table |-> ZipDict(source, destination)]
  ELSE [exc |-> "AssertionError", table |-> EmptyDict]

FullWidthTable ==
  DictUpdate(ZipDict(range(33, 126), range(65281, 65374)), 32, 12288)

\* SubscriptDst with the subscript i in the place of the subscript j.
SubscriptTable_typo ==
  create_table(SubscriptSrc,
               [i \in 1..Len(SubscriptDst) |->
                  IF SubscriptDst[i] = 11388 THEN 7522 ELSE SubscriptDst[i]])

SubscriptTable == create_table(SubscriptSrc, SubscriptDst)

\* cls(): what __init__ leaves in self.table, or the exception it raises.
New(cls) ==
  CASE cls = "FullWidthTranslation" -> [exc |-> "none", table |-> FullWidthTable]
    [] cls = "SuperscriptTranslation" ->
         create_table(SuperscriptSrc, SuperscriptDst)
    [] cls = "SubscriptTranslation" -> SubscriptTable
    [] cls = "BlackletterTranslation" ->
         create_table(BlackletterSrc, BlackletterDst)
    [] cls = "BoldBlackletterTranslation" ->
         create_table(BoldBlackletterSrc, BoldBlackletterDst)
    [] cls = "MathScriptTranslation" ->
         create_table(MathScriptSrc, MathScriptDst)
    [] cls = "BoldMathScriptTranslation" ->
         create_table(BoldMathScriptSrc, BoldMathScriptDst)

\* The subclasses of UpperTranslation.
UpperClasses_super == {"FullWidthTranslation", "SubscriptTranslation",
                       "SuperscriptTranslation"}

UpperClasses == {"FullWidthTranslation", "SubscriptTranslation"}

BaseTranslation_translate(tbl, s) == StrTranslate(tbl, s)

UpperTranslation_translate(tbl, s) == StrTranslate(tbl, upper(s))

\* The translate method a translation object of class cls resolves to.
Translate(cls, tbl, s) ==
  IF cls \in UpperClasses
  THEN UpperTranslation_translate(tbl, s)
  ELSE BaseTranslation_translate(tbl, s)

\* translator.translate(s) with a table that gains every key it is asked for.
translate_inserting(s) ==
  LET r == Translate(translator, table, s)
  IN  /\ string' = s
      /\ exc' = r.exc
      /\ translation' = r.value
      /\ table' = [c \in DOMAIN table \cup {s[i] : i \in 1..Len(s)} |->
                     IF c \in DOMAIN table THEN table[c] ELSE c]

\* translator.translate(s)
translate(s) ==
  LET r == Translate(translator, table, s)
  IN  /\ string' = s
      /\ exc' = r.exc
      /\ translation' = r.value
      /\ table' = table

-----------------------------------------------------------------------------
(* A translation object and the calls made on it. *)

mainVars == <<argv, args, xclip, clipboard, stdout>>

tableVars == <<src, dst, ret>>

InitTranslator ==
  /\ pc = "new"
  /\ argv = <<>>
  /\ args = [translator |-> "None", words |-> <<>>]
  /\ translator = "None"
  /\ table = EmptyDict
  /\ string = NoString
  /\ translation = NoString
  /\ exc = "none"
  /\ firstOut = [p \in Probes |-> NoString]
  /\ xclip = "none"
  /\ clipboard = NoString
  /\ stdout = <<>>
  /\ src = <<>>
  /\ dst = <<>>
  /\ ret = EmptyDict

\* translator = cls(): the object exists once __init__ has returned.
Instantiate(cls, next) ==
  LET r == New(cls)
  IN  /\ exc' = r.exc
      /\ IF r.exc = "none"
         THEN translator' = cls /\ table' = r.table /\ pc' = next
         ELSE UNCHANGED <<translator, table>> /\ pc' = "traceback"

Construct(cls) ==
  /\ pc = "new"
  /\ Instantiate(cls, "ready")
  /\ UNCHANGED <<string, translation, firstOut>>
  /\ UNCHANGED mainVars
  /\ UNCHANGED tableVars

\* translator.translate(s), any number of times
Call(s) ==
  /\ pc = "ready"
  /\ translate(s)
  /\ firstOut' = IF s \in Probes /\ firstOut[s] = NoString /\ exc' = "none"
                 THEN [firstOut EXCEPT ![s] = translation']
                 ELSE firstOut
  /\ UNCHANGED <<pc, translator>>
  /\ UNCHANGED mainVars
  /\ UNCHANGED tableVars

NextTranslator ==
  \/ \E cls \in Styles : Construct(cls)
  \/ \E s \in Strings : Call(s)

SpecTranslator == InitTranslator /\ [][NextTranslator]_vars

-----------------------------------------------------------------------------
(* create_table on its own, called with any two sequences. *)

InitCreateTable ==
  /\ pc = "call"
  /\ src \in SeqsUpTo(SrcChars, MaxTableLen)
  /\ dst \in SeqsUpTo(DstChars, MaxTableLen)
  /\ ret = EmptyDict
  /\ exc = "none"
  /\ argv = <<>>
  /\ args = [translator |-> "None", words |-> <<>>]
  /\ translator = "None"
  /\ table = EmptyDict
  /\ string = NoString
  /\ translation = NoString
  /\ firstOut = [p \in Probes |-> NoString]
  /\ xclip = "none"
  /\ clipboard = NoString
  /\ stdout = <<>>

\* ret = create_table(src, dst)
CreateTableCall ==
  /\ pc = "call"
  /\ LET r == create_table(src, dst)
     IN  /\ exc' = r.exc
         /\ IF r.exc = "none"
            THEN ret' = r.table /\ pc' = "returned"
            ELSE ret' = ret /\ pc' = "raised"
  /\ UNCHANGED <<src, dst, translator, table, string, translation, firstOut>>
  /\ UNCHANGED mainVars

NextCreateTable == CreateTableCall

SpecCreateTable == InitCreateTable /\ [][NextCreateTable]_vars

-----------------------------------------------------------------------------
(* The program: main, from the command line to the printed translation. *)

\* The class an option string of the parser stores in args.translator.
OptionClass(tok) ==
  CASE tok \in {<<45, 45, 102, 117, 108, 108>>, <<45, 102>>} ->
         "FullWidthTranslation"
    [] tok \in {<<45, 45, 115, 117, 112, 101, 114>>, <<45, 115>>} ->
         "SuperscriptTranslation"
    [] tok \in {<<45, 45, 115, 117, 98>>, <<45, 83>>} ->
         "SubscriptTranslation"
    [] tok \in {<<45, 45, 98, 108, 97, 99, 107>>, <<45, 98>>} ->
         "BlackletterTranslation"
    [] tok \in {<<45, 45, 98, 98, 108, 97, 99, 107>>, <<45, 66>>} ->
         "BoldBlackletterTranslation"
    [] tok \in {<<45, 45, 115, 99, 114, 105, 112, 116>>, <<45, 99>>} ->
         "MathScriptTranslation"
    [] tok \in {<<45, 45, 115, 115, 99, 114, 105, 112, 116>>, <<45, 67>>} ->
         "BoldMathScriptTranslation"
    [] OTHER -> "None"

\* The strings a command line is made of: -f -s -S -b -B -c -C, "Aq" and "~".
ArgTokens ==
  {<<45, 102>>, <<45, 115>>, <<45, 83>>, <<45, 98>>, <<45, 66>>, <<45, 99>>,
   <<45, 67>>, <<65, 113>>, <<126>>}

\* parse_args from argv[i] on, with the option of the group seen so far.  The
\* options are store_const into translator and mutually exclusive: a second,
\* different one is an error (exit status 2).  words is nargs=REMAINDER: from
\* the first string that is not an option on, every string is a word.  (Of the
\* strings starting with "-", the command lines here hold option strings only.)
RECURSIVE ParseFrom(_, _, _)
ParseFrom(av, i, seen) ==
  IF i > Len(av)
  THEN [exc |-> "none", translator |-> seen, words |-> <<>>]
  ELSE LET cls == OptionClass(av[i])
       IN  IF cls = "None"
           THEN [exc |-> "none", translator |-> seen,
                 words |-> SubSeq(av, i, Len(av))]
           ELSE IF seen # "None" /\ seen # cls
           THEN [exc |-> "SystemExit", translator |-> seen, words |-> <<>>]
           ELSE ParseFrom(av, i + 1, cls)

parse_args(av) == ParseFrom(av, 1, "None")

\* " ".join(words)
RECURSIVE Join(_)
Join(words) ==
  IF words = <<>> THEN <<>>
  ELSE IF Len(words) = 1 THEN words[1]
  ELSE words[1] \o <<32>> \o Join(Tail(words))

\* args.translator or FullWidthTranslation
DefaultClass_always(t) == "FullWidthTranslation"

DefaultClass(t) == IF t # "None" THEN t ELSE "FullWidthTranslation"

\* send_to_xclip(s): Popen raises when xclip cannot be started; otherwise the
\* string is written to xclip and the value is whether its exit status is 0.
send_to_xclip(outcome) ==
  IF outcome = "nostart"
  THEN [exc |-> "FileNotFoundError", value |-> FALSE]
  ELSE [exc |-> "none", value |-> outcome = "exit0"]

XclipOutcomes == {"exit0", "nonzero", "nostart"}

Init ==
  /\ pc = "start"
  /\ argv \in SeqsUpTo(ArgTokens, MaxArgs)
  /\ args = [translator |-> "None", words |-> <<>>]
  /\ translator = "None"
  /\ table = EmptyDict
  /\ string = NoString
  /\ translation = NoString
  /\ exc = "none"
  /\ firstOut = [p \in Probes |-> NoString]
  /\ xclip = "none"
  /\ clipboard = NoString
  /\ stdout = <<>>
  /\ src = <<>>
  /\ dst = <<>>
  /\ ret = EmptyDict

\* args = create_parser().parse_args()
ParseArgs ==
  /\ pc = "start"
  /\ LET r == parse_args(argv)
     IN  /\ exc' = r.exc
         /\ IF r.exc = "none"
            THEN /\ args' = [translator |-> r.translator, words |-> r.words]
                 /\ pc' = "parsed"
            ELSE /\ args' = args
                 /\ pc' = "exit2"
  /\ UNCHANGED <<argv, translator, table, string, translation, firstOut,
                 xclip, clipboard, stdout>>
  /\ UNCHANGED tableVars

\* translator = (args.translator or FullWidthTranslation)()
MainConstruct ==
  /\ pc = "parsed"
  /\ Instantiate(DefaultClass(args.translator), "constructed")
  /\ UNCHANGED <<string, translation, firstOut>>
  /\ UNCHANGED mainVars
  /\ UNCHANGED tableVars

\* translation = translator.translate(" ".join(args.words))
MainTranslate ==
  /\ pc = "constructed"
  /\ translate(Join(args.words))
  /\ pc' = IF exc' = "none" THEN "translated" ELSE "traceback"
  /\ UNCHANGED <<translator, firstOut>>
  /\ UNCHANGED mainVars
  /\ UNCHANGED tableVars

\* send_to_xclip(translation): the value returned is dropped, an exception
\* ends main.
SendToXclip ==
  /\ pc = "translated"
  /\ \E outcome \in XclipOutcomes :
       LET r == send_to_xclip(outcome)
       IN  /\ xclip' = outcome
           /\ exc' = r.exc
           /\ pc' = IF r.exc = "none" THEN "sent" ELSE "traceback"
           /\ clipboard' = IF r.exc = "none" /\ r.value
                           THEN translation ELSE clipboard
  /\ UNCHANGED <<argv, args, translator, table, string, translation,
                 firstOut, stdout>>
  /\ UNCHANGED tableVars

\* print(translation)
PrintTranslation ==
  /\ pc = "sent"
  /\ stdout' = Append(stdout, translation)
  /\ pc' = "done"
  /\ UNCHANGED <<argv, args, translator, table, string, translation, exc,
                 firstOut, xclip, clipboard>>
  /\ UNCHANGED tableVars

Next ==
  \/ ParseArgs
  \/ MainConstruct
  \/ MainTranslate
  \/ SendToXclip
  \/ PrintTranslation

Spec == Init /\ [][Next]_vars

-----------------------------------------------------------------------------
(* The properties checked. *)

\* A translate call has been made.
Called == string # NoString

\* The classes that upper-case their input, as the properties name them.
UpperStyles == {"FullWidthTranslation", "SubscriptTranslation"}

\* C1: the full-width table maps every code point of 0x21..0x7E, both ends
\* included, to itself plus 0xFEE0, and 0x20 to 0x3000; "A" translates to
\* U+FF21 and " " to U+3000.
C1_FullWidthRange ==
  translator = "FullWidthTranslation" =>
    /\ \A c \in 33..126 : c \in DOMAIN table /\ table[c] = c + 65248
    /\ 32 \in DOMAIN table /\ table[32] = 12288
    /\ (string = <<65>> => translation = <<65313>>)
    /\ (string = <<32>> => translation = <<12288>>)

\* C2, as stated: in every style, every character of the input that is not a
\* key of the table is found unchanged at the same position of the output.
C2_UnmappedKeptOriginal ==
  Called =>
    /\ exc = "none"
    /\ \A i \in 1..Len(string) :
         string[i] \notin DOMAIN table =>
           i <= Len(translation) /\ translation[i] = string[i]

\* C2, as amended: in the five styles that change no case, every character of
\* the input that is not a key of the table is found unchanged at the same
\* position of the output; in full-width and subscript that holds of the
\* upper-cased input, which the output is as long as.
C2_UnmappedKept ==
  Called =>
    LET u == IF translator \in UpperStyles THEN upper(string) ELSE string
    IN  /\ exc = "none"
        /\ Len(translation) = Len(u)
        /\ \A i \in 1..Len(u) :
             u[i] \notin DOMAIN table => translation[i] = u[i]

\* C2's case: "A1" under blackletter keeps its digit.
C2_Witness ==
  /\ translator = "BlackletterTranslation"
  /\ string = <<65, 49>>
  /\ translation = <<120068, 49>>

\* C4: under full-width and subscript translate(s) equals
\* translate(uppercase(s)); under the other five styles every character goes
\* through its own table entry, so superscript maps "a" to U+1D43 and "A" to
\* U+1D2C.
C4_UpperOnlyFullAndSub ==
  Called /\ exc = "none" =>
    /\ translator \in UpperStyles =>
         translation = Translate(translator, table, upper(string)).value
    /\ translator \notin UpperStyles =>
         /\ Len(translation) = Len(string)
         /\ \A i \in 1..Len(string) :
              translation[i] = IF string[i] \in DOMAIN table
                               THEN table[string[i]] ELSE string[i]
    /\ translator = "SuperscriptTranslation" =>
         /\ string = <<97>> => translation = <<7491>>
         /\ string = <<65>> => translation = <<7468>>

\* C4's case: "aq" under subscript comes out as subscript a and "Q".
C4_Witness ==
  /\ translator = "SubscriptTranslation"
  /\ string = <<97, 113>>
  /\ translation = <<8336, 81>>

\* C5, as stated: for source and destination of equal length the keys of the
\* table are the code points of source, and every source[i] maps to
\* destination[i].
C5_EveryIndexOriginal ==
  pc = "returned" =>
    /\ DOMAIN ret = {src[i] : i \in 1..Len(src)}
    /\ \A i \in 1..Len(src) : ret[src[i]] = dst[i]

\* C5, as amended: for source and destination of equal length the keys of the
\* table are the code points of source, and source[i] maps to destination[i]
\* at every index i after which source[i] does not occur again;
\* create_table("ABC", "abc") is {65: 97, 66: 98, 67: 99}.
C5_LastOccurrence ==
  pc = "returned" =>
    /\ DOMAIN ret = {src[i] : i \in 1..Len(src)}
    /\ \A i \in 1..Len(src) :
         (\A j \in (i + 1)..Len(src) : src[j] # src[i]) => ret[src[i]] = dst[i]
    /\ (src = <<65, 66, 67>> /\ dst = <<97, 98, 99>>) =>
         ret = (65 :> 97 @@ 66 :> 98 @@ 67 :> 99)

\* C5's case: create_table("ABC", "abc") has returned.
C5_Witness ==
  /\ pc = "returned"
  /\ src = <<65, 66, 67>>
  /\ dst = <<97, 98, 99>>
  /\ DOMAIN ret = {65, 66, 67}

\* C6: called with sequences of different lengths, create_table raises
\* AssertionError and returns no table.
C6_MismatchRaises ==
  (pc # "call" /\ Len(src) # Len(dst)) =>
    pc = "raised" /\ exc = "AssertionError" /\ ret = EmptyDict

\* C6's case: create_table("AB", "a") was called.
C6_Witness ==
  pc = "raised" /\ src = <<65, 66>> /\ dst = <<97>>

\* C7: the table of each of the seven styles is injective.
C7_Injective ==
  translator # "None" =>
    \A a \in DOMAIN table : \A b \in DOMAIN table :
      a # b => table[a] # table[b]

\* C7's case: a bold-script object with its 52 keys.
C7_Witness ==
  /\ translator = "BoldMathScriptTranslation"
  /\ Cardinality(DOMAIN table) = 52

\* C8: after any translate calls the table is the one built at construction,
\* and a call returns what the first call with the same input returned.
C8_TableAndOutputStable ==
  pc = "ready" =>
    /\ table = New(translator).table
    /\ \A p \in Probes :
         (string = p /\ firstOut[p] # NoString) => translation = firstOut[p]

\* C8's case: a subscript object after calls with "a", with "ß" and with "A ".
C8_Witness ==
  /\ translator = "SubscriptTranslation"
  /\ \A p \in Probes : firstOut[p] # NoString
  /\ string = <<65, 32>>

\* C9: translate raises nothing and returns a string for every input, the
\* empty string for the empty string.
C9_NoError ==
  Called =>
    /\ exc = "none"
    /\ DOMAIN translation = 1..Len(translation)
    /\ \A i \in 1..Len(translation) : translation[i] \in 0..1114111
    /\ string = <<>> => translation = <<>>

\* C9's case: "1~" under blackletter, a string of unmapped characters only.
C9_Witness ==
  /\ translator = "BlackletterTranslation"
  /\ string = <<49, 126>>
  /\ translation = <<49, 126>>

\* C3: whatever the clipboard call did, main prints the translation: once main
\* has ended after calling send_to_xclip, the translation is on standard
\* output.
C3_AlwaysPrinted ==
  (pc \in {"done", "traceback"} /\ xclip # "none") => stdout = <<translation>>

\* The indices of the style options on the command line.
OptionsGiven == {i \in 1..Len(argv) : OptionClass(argv[i]) # "None"}

\* The indices of the style options that precede the first word.
OptionsLeading ==
  {i \in OptionsGiven : \A j \in 1..i : OptionClass(argv[j]) # "None"}

\* The translation main is to compute with class cls.
TranslatedBy(cls) ==
  /\ translator = cls
  /\ Called => translation = Translate(cls, New(cls).table, string).value

\* C10, as stated: with no style option on the command line main translates
\* with full-width, with exactly one with that style.
C10_StyleChosenOriginal ==
  translator # "None" =>
    /\ OptionsGiven = {} => TranslatedBy("FullWidthTranslation")
    /\ \A i \in OptionsGiven :
         OptionsGiven = {i} => TranslatedBy(OptionClass(argv[i]))

\* C10, as amended: with no style option before the first word of the command
\* line main translates with full-width, with exactly one with that style; an
\* option string after the first word is text to translate.
C10_StyleChosen ==
  translator # "None" =>
    /\ OptionsLeading = {} =>
         /\ TranslatedBy("FullWidthTranslation")
         /\ Called => string = Join(argv)
    /\ OptionsLeading = {1} =>
         /\ TranslatedBy(OptionClass(argv[1]))
         /\ Called => string = Join(Tail(argv))

\* C10's case: "-s Aq" has been translated with superscript and printed.
C10_Witness ==
  /\ pc = "done"
  /\ argv = <<<<45, 115>>, <<65, 113>>>>
  /\ translator = "SuperscriptTranslation"
  /\ stdout = << <<7468, 113>> >>

=============================================================================
